---- MODULE Spec2Model ----
(***************************************************************************)
(* The statement-execution layer of vertica_python/vertica/cursor.py:     *)
(* class Cursor on top of a Connection channel.  One action per public     *)
(* operation; every action runs the whole method, all the reads, writes    *)
(* and process_message calls it makes included.                            *)
(*                                                                         *)
(* The server is the environment.  It owes one reply per Query written, a  *)
(* finite sequence of messages that ends with ReadyForQuery, and sends it  *)
(* message by message as the cursor reads; read_message blocks for ever    *)
(* when the server has nothing to send (the cursor is single-threaded).    *)
(* Since a method is one action, a method is the set of the states it can  *)
(* end in, one for every continuation of the reply it reads.               *)
(*                                                                         *)
(* A message carries its class (kind) and what identifies its content:     *)
(* the Query it answers (q) and its index in the reply to that Query (i).  *)
(***************************************************************************)
EXTENDS Integers, Sequences, FiniteSets, TLC

\* ------------------------------------------------------------------ bounds
MaxQueries == 2      \* Query messages written in a run
MaxSent == 7         \* messages the server sends in a run
MaxStatements == 2   \* statements answered in one batch
MaxRows == 2         \* rows of one result set
MaxNotices == 1      \* notices in one reply
MaxData == 3         \* size of a copy() payload
MaxChunk == 2        \* buffer_size of a streamed copy()
MaxSize == 2         \* size argument of fetchmany()
MaxCount == 5        \* rowcount up to which fetch calls are made

\* ----------------------------------------------------------------- server
None == [kind |-> "None", q |-> 0, i |-> 0]

\* The statements a caller submits: one batch of queries, one bulk load.
SqlTexts == {"SELECT", "COPY"}

\* The server's side of the protocol, one statement of the batch after the
\* other: a result set (RowDescription, DataRows, CommandComplete), a bare
\* CommandComplete, or for a bulk load a CopyInResponse and, once the
\* client has sent CopyDone, CommandComplete; a notice at any point; an
\* ErrorResponse at any point ends the batch; ReadyForQuery ends the reply.
\* Phases: S between statements, R in a result set, P in a copy, E failed.
\* NoticeResponse stands for every class the cursor does not name.
StepPhase(ph, k) ==
  CASE k = "NoticeResponse" -> ph
    [] k = "ErrorResponse" -> "E"
    [] k = "RowDescription" -> "R"
    [] k = "CopyInResponse" -> "P"
    [] k = "CommandComplete" -> "S"
    [] OTHER -> ph

RECURSIVE PhaseAfter(_, _, _)
PhaseAfter(w, j, ph) ==
  IF j > Len(w) THEN ph ELSE PhaseAfter(w, j + 1, StepPhase(ph, w[j]))

Phase(w) == PhaseAfter(w, 1, "S")

Count(w, K) == Cardinality({j \in 1..Len(w) : w[j] \in K})

\* the DataRows sent since the last RowDescription
RECURSIVE RowsOpen(_)
RowsOpen(w) ==
  IF w = <<>> \/ w[Len(w)] = "RowDescription" THEN 0
  ELSE RowsOpen(SubSeq(w, 1, Len(w) - 1))
         + (IF w[Len(w)] = "DataRow" THEN 1 ELSE 0)

\* the statements begun in the reply
Statements(w) ==
  Count(w, {"RowDescription", "CopyInResponse"})
    + Cardinality({j \in 1..Len(w) :
                     /\ w[j] = "CommandComplete"
                     /\ Phase(SubSeq(w, 1, j - 1)) = "S"})

\* owed: the texts of the Queries written and not answered to the end;
\* answered: the replies sent to the end; sent: the classes of the
\* messages sent of the reply in progress; fed: CopyDone has arrived;
\* total: the messages sent in the run.
Idle(answered, total) ==
  [owed |-> <<>>, answered |-> answered, sent |-> <<>>, fed |-> FALSE,
   total |-> total]

\* The message classes the server can send next.
Emits(sv) ==
  IF sv.owed = <<>> THEN {}
  ELSE LET ph == Phase(sv.sent)
           more == Statements(sv.sent) < MaxStatements
           go == ph \in {"S", "R"} \/ (ph = "P" /\ sv.fed)
       IN (IF ph = "S" /\ more /\ Head(sv.owed) = "SELECT"
             THEN {"RowDescription", "CommandComplete"} ELSE {})
          \cup (IF ph = "S" /\ more /\ Head(sv.owed) = "COPY"
                THEN {"CopyInResponse"} ELSE {})
          \cup (IF ph = "R" /\ RowsOpen(sv.sent) < MaxRows
                THEN {"DataRow"} ELSE {})
          \cup (IF ph = "R" \/ (ph = "P" /\ sv.fed)
                THEN {"CommandComplete"} ELSE {})
          \cup (IF go THEN {"ErrorResponse"} ELSE {})
          \cup (IF go /\ Count(sv.sent, {"NoticeResponse"}) < MaxNotices
                THEN {"NoticeResponse"} ELSE {})
          \cup (IF ph \in {"S", "E"} THEN {"ReadyForQuery"} ELSE {})

\* The message of class k the server sends in state sv.
Msg(sv, k) == [kind |-> k, q |-> sv.answered + 1, i |-> Len(sv.sent) + 1]

\* The server after it sent a message of class k.
Sent(sv, k) ==
  IF k = "ReadyForQuery"
  THEN [Idle(sv.answered + 1, sv.total + 1) EXCEPT !.owed = Tail(sv.owed)]
  ELSE [sv EXCEPT !.sent = Append(sv.sent, k), !.total = sv.total + 1,
                  !.fed = IF k = "CopyInResponse" THEN FALSE ELSE sv.fed]

\* The server after the client wrote w.
Received(sv, w) ==
  CASE w.kind = "Query" -> [sv EXCEPT !.owed = Append(sv.owed, w.arg)]
    [] w.kind = "CopyDone" -> [sv EXCEPT !.fed = TRUE]
    [] OTHER -> sv

\* ------------------------------------------------------------------ state
VARIABLES
  _closed,             \* Cursor._closed
  _message,            \* Cursor._message, the lookahead slot
  description,         \* Cursor.description
  rowcount,            \* Cursor.rowcount
  cursor_type,         \* Cursor.cursor_type
  conn_closed,         \* what connection.closed() reports
  transaction_status,  \* connection.transaction_status
  server,              \* the server at the other end of the channel
  nq,                  \* Query messages written so far
  op,                  \* the last public operation called
  ret,                 \* what it returned or raised
  nreads,              \* the read_message calls it made that returned
  writes,              \* its connection.write calls, in order
  processed,           \* its connection.process_message calls, in order
  delivered,           \* rows returned to the caller since the last execute()
  fetching,            \* only fetch calls were made since the last execute()
  blocked,             \* the thread sits in a read_message that never returns
  terminal,            \* the slot held a terminal marker since rowcount was reset
  asked                \* the size passed to the last call, if it was fetchmany()

vars ==
  <<_closed, _message, description, rowcount, cursor_type, conn_closed,
    transaction_status, server, nq, op, ret, nreads, writes, processed,
    delivered, fetching, blocked, terminal, asked>>

State ==
  [_closed |-> _closed, _message |-> _message, description |-> description,
   rowcount |-> rowcount, cursor_type |-> cursor_type,
   conn_closed |-> conn_closed, transaction_status |-> transaction_status,
   server |-> server, nq |-> nq, op |-> op, ret |-> ret, nreads |-> nreads,
   writes |-> writes, processed |-> processed, delivered |-> delivered,
   fetching |-> fetching, blocked |-> blocked, terminal |-> terminal,
   asked |-> asked, last |-> None]

Becomes(s) ==
  /\ _closed' = s._closed
  /\ _message' = s._message
  /\ description' = s.description
  /\ rowcount' = s.rowcount
  /\ cursor_type' = s.cursor_type
  /\ conn_closed' = s.conn_closed
  /\ transaction_status' = s.transaction_status
  /\ server' = s.server
  /\ nq' = s.nq
  /\ op' = s.op
  /\ ret' = s.ret
  /\ nreads' = s.nreads
  /\ writes' = s.writes
  /\ processed' = s.processed
  /\ delivered' = s.delivered
  /\ fetching' = s.fetching
  /\ blocked' = s.blocked
  /\ terminal' = s.terminal
  /\ asked' = s.asked

\* ------------------------------------------------------- call bookkeeping
FetchCalls == {"fetchone", "fetchmany", "fetchall"}

Call(s, name) ==
  [s EXCEPT !.op = name, !.nreads = 0, !.writes = <<>>, !.processed = <<>>,
            !.ret = [tag |-> "None", val |-> <<>>], !.asked = 0,
            !.fetching = s.fetching /\ name \in FetchCalls]

Return(s, tag, val) == [s EXCEPT !.ret = [tag |-> tag, val |-> val]]

Raise(s, tag, val) == [s EXCEPT !.ret = [tag |-> tag, val |-> val]]

Block(s) == [s EXCEPT !.ret = [tag |-> "blocked", val |-> <<>>], !.blocked = TRUE]

Raised(s) == s.ret.tag \in {"Error", "QueryError", "TypeError", "AttributeError"}

Stopped(s) == s.blocked \/ Raised(s)

\* ------------------------------------------------------------- connection
\* message = connection.read_message(): one outcome for every message the
\* server can send next (s.last is the local variable message); the call
\* never returns when the server can send none.  A run ends where the
\* server has sent MaxSent messages.
Reads(s) ==
  IF Emits(s.server) = {} THEN {Block(s)}
  ELSE IF s.server.total >= MaxSent THEN {}
  ELSE {[s EXCEPT !.server = Sent(s.server, k), !.nreads = s.nreads + 1,
                  !.last = Msg(s.server, k)] : k \in Emits(s.server)}

LastRead(s) == s.last

\* self._message = m; terminal records that the slot has held a terminal
\* marker since execute() last reset rowcount
SetSlot(s, m) ==
  [s EXCEPT !._message = m,
            !.terminal = s.terminal
                         \/ m.kind \in {"CommandComplete", "ReadyForQuery"}]

\* self._message = self.connection.read_message()
SlotReads(s) ==
  {IF t.blocked THEN t ELSE SetSlot(t, LastRead(t)) : t \in Reads(s)}

\* connection.process_message(message)
ProcessMessage(s, m) ==
  [s EXCEPT !.processed = Append(s.processed, m),
            !.transaction_status =
               IF m.kind = "ReadyForQuery" THEN m ELSE s.transaction_status]

\* connection.write(w); at: the read_message calls made before it
Write(s, w) ==
  [s EXCEPT !.writes = Append(s.writes, [w EXCEPT !.at = s.nreads]),
            !.server = Received(s.server, w),
            !.nq = IF w.kind = "Query" THEN s.nq + 1 ELSE s.nq]

Query(sql) == [kind |-> "Query", arg |-> sql, size |-> 0, chunks |-> <<>>, at |-> 0]

\* a closed() that does not ask the connection
closed_cursor(s) == s._closed

\* return self._closed or self.connection.closed()
closed(s) == s._closed \/ s.conn_closed

\* ------------------------------------------------------------------ flush
RECURSIVE FlushQueryReadyLoop(_)
FlushQueryReadyLoop(s) ==
  UNION {IF t.blocked THEN {t}
         ELSE IF LastRead(t).kind = "ReadyForQuery"
         THEN {SetSlot([t EXCEPT !.transaction_status = LastRead(t)],
                       LastRead(t))}
         ELSE FlushQueryReadyLoop(t) : t \in Reads(s)}

\* a flush that skips its work only while the slot is empty
flush_unless_empty(s) ==
  IF s._message = None THEN {s} ELSE FlushQueryReadyLoop(s)

flush_to_query_ready(s) ==
  IF s._message = None \/ s._message.kind = "ReadyForQuery" THEN {s}
  ELSE FlushQueryReadyLoop(s)

RECURSIVE FlushCommandCompleteLoop(_)
FlushCommandCompleteLoop(s) ==
  UNION {IF t.blocked THEN {t}
         ELSE IF LastRead(t).kind = "CommandComplete"
         THEN {SetSlot(t, LastRead(t))}
         ELSE FlushCommandCompleteLoop(t) : t \in Reads(s)}

flush_to_command_complete(s) ==
  IF \/ s._message = None
     \/ s._message.kind = "ReadyForQuery"
     \/ s._message.kind = "CommandComplete"
  THEN {s}
  ELSE FlushCommandCompleteLoop(s)

\* ---------------------------------------------------------------- execute
\* message.fields of a RowDescription: one field, named by its result set
Fields(m) == <<[q |-> m.q, i |-> m.i]>>

\* [Column(fd, self.unicode_error) for fd in self._message.fields]
Columns(m) ==
  [isNone |-> FALSE, cols |-> [i \in 1..Len(Fields(m)) |-> [fd |-> Fields(m)[i]]]]

NoDescription == [isNone |-> TRUE, cols |-> <<>>]

\* errors.QueryError.from_error_response(message, sql)
QueryError(m, sql) == <<[msg |-> m, sql |-> sql]>>

\* a loop that drops the messages it has no branch for
RECURSIVE ExecuteLoopSilent(_, _)
ExecuteLoopSilent(s, operation) ==
  LET m == s._message IN
  IF m.kind = "ErrorResponse"
  THEN {Raise(s, "QueryError", QueryError(m, operation))}
  ELSE IF m.kind \in {"DataRow", "ReadyForQuery", "CommandComplete"} THEN {s}
  ELSE LET p == IF m.kind = "RowDescription"
                THEN [s EXCEPT !.description = Columns(m)]
                ELSE s
       IN UNION {IF t.blocked THEN {t} ELSE ExecuteLoopSilent(t, operation) :
                   t \in SlotReads(p)}

\* the while loop of execute(), entered with a message in the slot
RECURSIVE ExecuteLoop(_, _)
ExecuteLoop(s, operation) ==
  LET m == s._message IN
  IF m.kind = "ErrorResponse"
  THEN {Raise(s, "QueryError", QueryError(m, operation))}
  ELSE IF m.kind \in {"DataRow", "ReadyForQuery", "CommandComplete"}
  THEN {s}
  ELSE LET p == IF m.kind = "RowDescription"
                THEN [s EXCEPT !.description = Columns(m)]
                ELSE ProcessMessage(s, m)
       IN UNION {IF t.blocked THEN {t} ELSE ExecuteLoop(t, operation) :
                   t \in SlotReads(p)}

\* an execute() that leaves rowcount as it finds it
KeepCount(s) ==
  [s EXCEPT !.delivered = <<>>, !.fetching = TRUE, !.terminal = FALSE]

\* self.rowcount = -1
ResetCount(s) ==
  [s EXCEPT !.rowcount = -1, !.delivered = <<>>, !.fetching = TRUE,
            !.terminal = FALSE]

execute(s0, operation, parameters) ==
  LET s == Call(s0, "execute") IN
  IF closed(s) THEN {Raise(s, "Error", <<"Cursor is closed">>)}
  ELSE UNION {
    IF f.blocked THEN {f}
    ELSE IF parameters
    THEN {Raise(f, "AttributeError", <<"format_operation_with_parameters">>)}
    ELSE UNION {IF t.blocked THEN {t} ELSE ExecuteLoop(t, operation) :
                  t \in SlotReads(Write(ResetCount(f), Query(operation)))} :
    f \in flush_to_query_ready(s)}

\* ---------------------------------------------------------- row formatter
\* row_data.values of a DataRow: one value, named by its row
Values(m) == <<[q |-> m.q, i |-> m.i]>>

\* self.description[idx].convert(value)
Convert(d, idx, value) == [column |-> d.cols[idx], value |-> value]

\* self.description[idx] is there for every value of the row
CanFormat(s, m) ==
  /\ ~s.description.isNone
  /\ Len(Values(m)) <= Len(s.description.cols)

format_row_as_array(s, m) ==
  [idx \in 1..Len(Values(m)) |-> Convert(s.description, idx, Values(m)[idx])]

format_row_as_dict(s, m) ==
  [idx \in 1..Len(Values(m)) |->
     [name |-> s.description.cols[idx].fd,
      conv |-> Convert(s.description, idx, Values(m)[idx])]]

row_formatter(s, m) ==
  IF s.cursor_type = "dict" THEN format_row_as_dict(s, m)
  ELSE format_row_as_array(s, m)

\* Python's truth value of what fetchone() returned
Truthy(s) == s.ret.tag = "row" /\ Len(s.ret.val[1]) > 0

\* --------------------------------------------------------------- fetchone
\* a count that takes the sentinel for a number
CountedFromNone(n) == n + 1

\* a count that starts again at every row
Restarted(n) == 1

\* if self.rowcount == -1: self.rowcount = 1 else: self.rowcount += 1
Counted(n) == IF n = -1 THEN 1 ELSE n + 1

fetchone(s) ==
  IF s._message.kind = "DataRow"
  THEN LET c == [s EXCEPT !.rowcount = Counted(s.rowcount)]
       IN IF ~CanFormat(c, c._message)
          THEN {Raise(c, "TypeError", <<"description">>)}
          ELSE LET row == row_formatter(c, c._message) IN
               {IF t.blocked THEN t
                ELSE Return([t EXCEPT !.delivered = Append(t.delivered, row)],
                            "row", <<row>>) : t \in SlotReads(c)}
  ELSE IF s._message.kind = "ReadyForQuery" THEN {Return(s, "None", <<>>)}
  ELSE IF s._message.kind = "CommandComplete" THEN {Return(s, "None", <<>>)}
  ELSE {Return(ProcessMessage(s, s._message), "None", <<>>)}

\* -------------------------------------------------- fetchmany, fetchall
ArraySize == 1

\* a loop that looks at the size before it appends
RECURSIVE FetchmanyLoopOver(_, _, _)
FetchmanyLoopOver(s, size, results) ==
  UNION {IF Stopped(t) THEN {t}
         ELSE IF ~Truthy(t) THEN {Return(t, "list", results)}
         ELSE IF Len(results) >= size
         THEN {Return(t, "list", Append(results, t.ret.val[1]))}
         ELSE FetchmanyLoopOver(t, size, Append(results, t.ret.val[1])) :
           t \in fetchone(s)}

RECURSIVE FetchmanyLoop(_, _, _)
FetchmanyLoop(s, size, results) ==
  UNION {IF Stopped(t) THEN {t}
         ELSE IF ~Truthy(t) THEN {Return(t, "list", results)}
         ELSE IF Len(results) + 1 >= size
         THEN {Return(t, "list", Append(results, t.ret.val[1]))}
         ELSE FetchmanyLoop(t, size, Append(results, t.ret.val[1])) :
           t \in fetchone(s)}

\* size 0 stands for the default None: both are false in `if not size`
fetchmany(s, size) ==
  FetchmanyLoop(s, IF size = 0 THEN ArraySize ELSE size, <<>>)

\* list(self.iterate())
RECURSIVE IterateLoop(_, _)
IterateLoop(s, results) ==
  UNION {IF Stopped(t) THEN {t}
         ELSE IF ~Truthy(t) THEN {Return(t, "list", results)}
         ELSE IterateLoop(t, Append(results, t.ret.val[1])) :
           t \in fetchone(s)}

fetchall(s) == IterateLoop(s, <<>>)

\* ---------------------------------------------------------------- nextset
\* a nextset() that takes every message but a RowDescription for the end
NextsetReadLenient(s) ==
  UNION {IF t.blocked THEN {t}
         ELSE IF t._message.kind = "RowDescription"
         THEN {IF u.blocked THEN u ELSE Return(u, "True", <<>>) :
                 u \in SlotReads(t)}
         ELSE {Return(t, "None", <<>>)} : t \in SlotReads(s)}

\* nextset() after its flush, the slot being a CommandComplete
NextsetRead(s) ==
  UNION {IF t.blocked THEN {t}
         ELSE IF t._message.kind = "RowDescription"
         THEN {IF u.blocked THEN u ELSE Return(u, "True", <<>>) :
                 u \in SlotReads(t)}
         ELSE IF t._message.kind = "ReadyForQuery"
         THEN {Return(t, "None", <<>>)}
         ELSE {Raise(t, "Error",
                     <<"Unexpected nextset() state after CommandComplete">>)} :
           t \in SlotReads(s)}

nextset(s0) ==
  UNION {IF s.blocked THEN {s}
         ELSE IF s._message = None THEN {Return(s, "None", <<>>)}
         ELSE IF s._message.kind = "CommandComplete" THEN NextsetRead(s)
         ELSE IF s._message.kind = "ReadyForQuery"
         THEN {Return(s, "None", <<>>)}
         ELSE {Raise(s, "Error", <<"Unexpected nextset() state">>)} :
           s \in flush_to_command_complete(s0)}

\* ------------------------------------------------------------------- copy
Min(a, b) == IF a < b THEN a ELSE b

\* messages.CopyStream(data, **kwargs) on the wire: the source is read
\* buffer_size bytes at a time until it is exhausted.
RECURSIVE Chunks(_, _)
Chunks(left, buffer_size) ==
  IF left = 0 THEN <<>>
  ELSE <<Min(left, buffer_size)>>
         \o Chunks(left - Min(left, buffer_size), buffer_size)

\* a data write that reads the source in pieces one larger than asked
DataWriteUnbuffered(data, left, buffer_size) ==
  IF ~data.stream
  THEN [kind |-> "CopyData", arg |-> 0, size |-> data.size,
        chunks |-> <<data.size>>, at |-> 0]
  ELSE [kind |-> "CopyStream", arg |-> buffer_size, size |-> left,
        chunks |-> Chunks(left, buffer_size + 1), at |-> 0]

\* the data write of one CopyInResponse; left is what the source still holds
DataWrite(data, left, buffer_size) ==
  IF ~data.stream
  THEN [kind |-> "CopyData", arg |-> 0, size |-> data.size,
        chunks |-> <<data.size>>, at |-> 0]
  ELSE [kind |-> "CopyStream", arg |-> buffer_size, size |-> left,
        chunks |-> Chunks(left, buffer_size), at |-> 0]

CopyDone == [kind |-> "CopyDone", arg |-> 0, size |-> 0, chunks |-> <<>>, at |-> 0]

\* the two writes in the other order
DoneThenFeed(s, data, left, buffer_size) ==
  Write(Write(s, CopyDone), DataWrite(data, left, buffer_size))

\* the writes that answer one CopyInResponse
Feed(s, data, left, buffer_size) ==
  Write(Write(s, DataWrite(data, left, buffer_size)), CopyDone)

\* the while loop of copy()
RECURSIVE CopyLoop(_, _, _, _, _)
CopyLoop(s, sql, data, left, buffer_size) ==
  UNION {
    IF r.blocked THEN {r}
    ELSE IF LastRead(r).kind = "ErrorResponse"
    THEN {Raise(r, "QueryError", QueryError(LastRead(r), sql))}
    ELSE LET p == ProcessMessage(r, LastRead(r)) IN
         IF LastRead(r).kind = "ReadyForQuery" THEN {p}
         ELSE IF LastRead(r).kind = "CopyInResponse"
         THEN CopyLoop(Feed(p, data, left, buffer_size),
                       sql, data, IF data.stream THEN 0 ELSE left, buffer_size)
         ELSE CopyLoop(p, sql, data, left, buffer_size) :
    r \in Reads(s)}

copy(s0, sql, data, buffer_size) ==
  LET s == Call(s0, "copy") IN
  IF closed(s) THEN {Raise(s, "Error", <<"Cursor is closed">>)}
  ELSE UNION {IF f.blocked THEN {f}
              ELSE CopyLoop(Write(f, Query(sql)), sql, data, data.size,
                            buffer_size) :
                f \in flush_to_query_ready(s)}

\* ------------------------------------------------------------------ close
\* a close() that forgets
close_nothing(s) == s

close(s) == [s EXCEPT !._closed = TRUE]

\* __enter__ returns the cursor itself
enter(s) == Return(s, "self", <<>>)

\* __exit__(type_, value, traceback): type_ is kept next to the None it
\* returns, which lets the exception of the body propagate
exit(s, type_) == Return(close(s), "None", <<type_>>)

\* ------------------------------------------------------------------- spec
Init ==
  /\ _closed = FALSE
  /\ _message = None
  /\ description = NoDescription
  /\ rowcount = -1
  /\ cursor_type \in {"list", "dict"}
  /\ conn_closed = FALSE
  /\ transaction_status = None
  /\ server = Idle(0, 0)
  /\ nq = 0
  /\ op = "__init__"
  /\ ret = [tag |-> "None", val |-> <<>>]
  /\ nreads = 0
  /\ writes = <<>>
  /\ processed = <<>>
  /\ delivered = <<>>
  /\ fetching = FALSE
  /\ blocked = FALSE
  /\ terminal = FALSE
  /\ asked = 0

Payloads == [stream : BOOLEAN, size : 0..MaxData]

\* A call can be made while the thread is not stuck in a read.
Callable == ~blocked

\* Fetch calls, which may count a row, are made while rowcount is below the
\* bound, and calls that read while the channel is open.
Fetchable == Callable /\ ~conn_closed /\ rowcount < MaxCount

\* The run writes at most MaxQueries Queries.
MayWrite == nq < MaxQueries

Execute ==
  /\ Callable
  /\ \E operation \in {"SELECT"}, parameters \in BOOLEAN :
       /\ (~closed(State) /\ ~parameters) => MayWrite
       /\ \E t \in execute(State, operation, parameters) : Becomes(t)

Copy ==
  /\ Callable
  /\ \E sql \in {"COPY"}, data \in Payloads, buffer_size \in 1..MaxChunk :
       /\ ~data.stream => buffer_size = 1
       /\ ~closed(State) => MayWrite
       /\ \E t \in copy(State, sql, data, buffer_size) : Becomes(t)

Fetchone ==
  /\ Fetchable
  /\ \E t \in fetchone(Call(State, "fetchone")) : Becomes(t)

Fetchmany ==
  /\ Fetchable
  /\ \E size \in 0..MaxSize :
       \E t \in fetchmany([Call(State, "fetchmany") EXCEPT !.asked = size],
                        size) : Becomes(t)

Fetchall ==
  /\ Fetchable
  /\ \E t \in fetchall(Call(State, "fetchall")) : Becomes(t)

Nextset ==
  /\ Callable
  /\ ~conn_closed
  /\ \E t \in nextset(Call(State, "nextset")) : Becomes(t)

FlushToQueryReady ==
  /\ Callable
  /\ ~conn_closed
  /\ \E t \in flush_to_query_ready(Call(State, "flush_to_query_ready")) :
       Becomes(t)

FlushToCommandComplete ==
  /\ Callable
  /\ ~conn_closed
  /\ \E t \in flush_to_command_complete(
                Call(State, "flush_to_command_complete")) : Becomes(t)

Close ==
  /\ Callable
  /\ Becomes(close(Call(State, "close")))

\* with cursor: the body starts
Enter ==
  /\ Callable
  /\ Becomes(enter(Call(State, "__enter__")))

\* the body of a with statement ends, by itself or by an exception
Exit ==
  /\ Callable
  /\ \E type_ \in {"None", "Exception"} :
       Becomes(exit(Call(State, "__exit__"), type_))

\* The channel is closed under the cursor (by its owner, or by a failure).
ConnectionClosed ==
  /\ Callable
  /\ ~conn_closed
  /\ conn_closed' = TRUE
  /\ UNCHANGED <<_closed, _message, description, rowcount, cursor_type,
                 transaction_status, server, nq, op, ret, nreads, writes,
                 processed, delivered, fetching, blocked, terminal, asked>>

Next ==
  \/ Execute
  \/ Copy
  \/ Fetchone
  \/ Fetchmany
  \/ Fetchall
  \/ Nextset
  \/ FlushToQueryReady
  \/ FlushToCommandComplete
  \/ Close
  \/ Enter
  \/ Exit
  \/ ConnectionClosed

Spec == Init /\ [][Next]_vars

\* ----------------------------------------------------------------- claims
\* A step is a call of the method it leaves in op, unless it is the one in
\* which the connection is closed.
Called(names) == op' \in names /\ conn_closed' = conn_closed

\* The classes sent so far of the reply to the last Query written: nothing
\* while the server is still busy with an earlier Query.
Answering == server.owed # <<>> /\ server.answered = nq - 1

NotAnswered == server.answered < nq - 1

AnswerSoFar == IF Answering THEN server.sent ELSE <<>>

\* w is the beginning of a reply RowDescription, DataRow.., CommandComplete
ResultSetPrefix(w) ==
  \A j \in 1..Len(w) :
     IF j = 1 THEN w[j] = "RowDescription"
     ELSE w[j] = "DataRow" \/ (w[j] = "CommandComplete" /\ j = Len(w))

ResultSetDone(w) == Len(w) >= 2 /\ w[Len(w)] = "CommandComplete"

\* row j of the reply to Query q, as this cursor formats it with the
\* RowDescription the reply began with
AnswerRow(q, j) ==
  row_formatter([cursor_type |-> cursor_type,
                 description |-> Columns([kind |-> "RowDescription",
                                          q |-> q, i |-> 1])],
                [kind |-> "DataRow", q |-> q, i |-> j])

AnswerRows(q, w) == [j \in 1..(Len(w) - 2) |-> AnswerRow(q, j + 1)]

\* fetchall() was called after execute() with no row fetched in between
FetchallAfterExecute ==
  /\ op = "fetchall"
  /\ fetching
  /\ ret.tag = "list" => delivered = ret.val

\* C1 (state part): when the server answers an execute() with a
\* RowDescription, N DataRows and CommandComplete, the fetchall() that
\* follows returns exactly those N rows in arrival order.
C1Returned ==
  (/\ FetchallAfterExecute
   /\ Answering \/ NotAnswered
   /\ ResultSetPrefix(AnswerSoFar))
  => /\ ret.tag = "list"
     /\ ResultSetDone(AnswerSoFar)
     /\ ret.val = AnswerRows(nq, AnswerSoFar)

\* C1 (step part): every fetchone() called with the result set drained
\* returns None and leaves the slot where it is.
C1Drained ==
  (_message.kind = "CommandComplete" /\ Called({"fetchone"}))
  => (ret'.tag = "None" /\ _message' = _message)

\* C1: for every N >= 0, a RowDescription, N DataRows and CommandComplete in
\* answer to execute() make the following fetchall() return exactly those N
\* rows in arrival order, and every fetchone() after that return None.
C1Claim == []C1Returned /\ [][C1Drained]_vars

\* the rows of the result set that the CommandComplete in the slot closes
RowsOfSet == RowsOpen(SubSeq(server.sent, 1, _message.i - 1))

Drained == fetching /\ ~blocked /\ _message.kind = "CommandComplete"

\* C2: after execute() and fetch calls that consumed a result set of N rows
\* up to its CommandComplete, rowcount is N when N > 0 and -1 when N = 0.
C2Claim ==
  Drained
  => /\ server.answered = _message.q - 1
     /\ Len(server.sent) = _message.i
     /\ server.sent[_message.i] = "CommandComplete"
     /\ Len(delivered) = RowsOfSet
     /\ rowcount = IF RowsOfSet = 0 THEN -1 ELSE RowsOfSet

C2Witness ==
  /\ Drained
  /\ op = "fetchone"
  /\ ret.tag = "None"
  /\ RowsOfSet = MaxRows
  /\ rowcount = MaxRows

\* nextset() read the message that follows a CommandComplete
NextsetRan == op = "nextset" /\ ~blocked /\ nreads >= 1

\* the class of that message: on True one more message was read after it
AfterComplete ==
  IF ret.tag = "True" THEN server.sent[Len(server.sent) - 1]
  ELSE _message.kind

\* C3: with the result set drained to its CommandComplete, nextset() returns
\* True exactly when the next message read is a RowDescription, None when it
\* is ReadyForQuery, and raises for every other class.
C3Claim ==
  NextsetRan
  => /\ ret.tag \in {"True", "None", "Error"}
     /\ ret.tag = "True" <=> AfterComplete = "RowDescription"
     /\ ret.tag = "None" <=> AfterComplete = "ReadyForQuery"
     /\ ret.tag = "Error"
          <=> AfterComplete \notin {"RowDescription", "ReadyForQuery"}
     /\ ret.tag = "True"
          => server.sent[Len(server.sent) - 2] = "CommandComplete"

C3Witness ==
  /\ NextsetRan
  /\ ret.tag = "True"
  /\ nreads = 2
  /\ _message.kind = "DataRow"

\* C4: execute() and copy() on a closed session raise, write nothing, read
\* nothing and leave rowcount, description and the slot as they were.
C4Step ==
  ((_closed \/ conn_closed) /\ Called({"execute", "copy"}))
  => /\ ret'.tag = "Error"
     /\ writes' = <<>>
     /\ nreads' = 0
     /\ UNCHANGED <<rowcount, description, _message, server, nq,
                    transaction_status>>

C4Claim == [][C4Step]_vars

C4Witness ==
  /\ op \in {"execute", "copy"}
  /\ ret = [tag |-> "Error", val |-> <<"Cursor is closed">>]
  /\ rowcount > 0
  /\ _message.kind = "DataRow"
  /\ ~description.isNone

\* ------------------------------------------------------------ copy claims
\* copy() wrote its Query: it was not refused and did not block in the flush
Copied == op = "copy" /\ writes # <<>>

\* the reads made before the Query was written are those of the flush; every
\* later read but a final ErrorResponse is handed to process_message, so
\* read number FlushReads + k is processed[k]
FlushReads == writes[1].at

CopyInReads ==
  {FlushReads + k : k \in {j \in 1..Len(processed) :
                             processed[j].kind = "CopyInResponse"}}

WritesAt(n) == {j \in 1..Len(writes) : writes[j].at = n}

\* C5: copy() writes one Query first and then, for each CopyInResponse it
\* reads, one data write directly followed by one CopyDone; neither is
\* written before a CopyInResponse was read.
C5Claim ==
  /\ (op = "copy" /\ writes = <<>>) => (ret.tag = "Error" \/ blocked)
  /\ Copied
     => /\ writes[1].kind = "Query"
        /\ \A j \in 2..Len(writes) :
              /\ writes[j].kind # "Query"
              /\ writes[j].at \in CopyInReads
        /\ \A n \in CopyInReads :
              \E j \in 2..(Len(writes) - 1) :
                 /\ WritesAt(n) = {j, j + 1}
                 /\ writes[j].kind \in {"CopyData", "CopyStream"}
                 /\ writes[j + 1].kind = "CopyDone"

C5Witness ==
  /\ Copied
  /\ Cardinality(CopyInReads) = 2
  /\ Len(writes) = 5
  /\ FlushReads > 0

Ceil(S, C) == (S + C - 1) \div C

RECURSIVE Sum(_)
Sum(w) == IF w = <<>> THEN 0 ELSE w[1] + Sum(Tail(w))

\* a copy() of a streamed source that was asked for its data once
Streamed ==
  /\ Copied
  /\ Cardinality(CopyInReads) = 1
  /\ Len(writes) >= 2
  /\ writes[2].kind = "CopyStream"

ErrorAnswered ==
  /\ op = "execute"
  /\ writes # <<>>
  /\ nreads > writes[1].at
  /\ ~blocked
  /\ _message.kind = "ErrorResponse"

\* C7: when the first reply execute() cannot skip is an ErrorResponse, it
\* raises a QueryError made of that reply and of the SQL text it sent, and
\* rowcount is -1 afterwards.
C7Claim ==
  /\ ErrorAnswered
     => /\ ret = [tag |-> "QueryError",
                  val |-> <<[msg |-> _message, sql |-> writes[1].arg]>>]
        /\ writes[1].arg \in SqlTexts
        /\ rowcount = -1
  /\ (op = "execute" /\ ret.tag = "QueryError") => ErrorAnswered

C7Witness ==
  /\ ErrorAnswered
  /\ ret.tag = "QueryError"
  /\ nreads > writes[1].at + 1
  /\ writes[1].at > 0

TerminalKinds == {"CommandComplete", "ReadyForQuery"}

\* C8: after every public operation has returned or raised, the slot holds
\* nothing, a DataRow, a CommandComplete or a ReadyForQuery.
C8Claim ==
  ~blocked => _message.kind \in {"None", "DataRow"} \cup TerminalKinds

\* ------------------------------------------------------- rowcount claims
Next1(n) == IF n = -1 THEN 1 ELSE n + 1

RECURSIVE Advance(_, _)
Advance(n, k) == IF k = 0 THEN n ELSE Advance(Next1(n), k - 1)

\* the rows a call returned
Returned(r) ==
  IF r.tag = "row" THEN 1 ELSE IF r.tag = "list" THEN Len(r.val) ELSE 0

\* C9 as stated: between one execute() and the next rowcount never goes
\* down, it advances by one per row returned, and from the moment the slot
\* has held a terminal marker no fetch or nextset call changes it.
C9Frozen ==
  ~Called({"execute"})
  => /\ rowcount' >= rowcount
     /\ (Called(FetchCalls) /\ ~Stopped([ret |-> ret', blocked |-> blocked']))
          => rowcount' = Advance(rowcount, Returned(ret'))
     /\ terminal => rowcount' = rowcount

Consumed ==
  (Len(delivered') - Len(delivered))
  + (IF ret'.tag \in {"TypeError", "blocked"} THEN 1 ELSE 0)

\* C9 amended: between one execute() and the next rowcount never goes down
\* and advances by one for each DataRow a fetch call takes out of the slot;
\* a fetch call that finds a terminal marker in the slot, and nextset() and
\* copy() and the flushes always, leave it alone; it goes on counting when
\* nextset() has moved to a following result set.
C9Counting ==
  ~Called({"execute"})
  => /\ rowcount' >= rowcount
     /\ rowcount' # rowcount
          => /\ Called(FetchCalls)
             /\ _message.kind = "DataRow"
             /\ rowcount' = Advance(rowcount, Consumed)
     /\ (Called(FetchCalls) /\ ~Stopped([ret |-> ret', blocked |-> blocked']))
          => rowcount' = Advance(rowcount, Returned(ret'))
     /\ (Called(FetchCalls) /\ _message.kind \in TerminalKinds)
          => rowcount' = rowcount

OwnDescription(i) ==
  LET j == CHOOSE k \in 1..i :
             /\ server.sent[k] = "RowDescription"
             /\ \A l \in (k + 1)..i : server.sent[l] # "RowDescription"
  IN [kind |-> "RowDescription", q |-> server.answered + 1, i |-> j]

OwnRow(m) ==
  row_formatter([cursor_type |-> cursor_type,
                 description |-> Columns(OwnDescription(m.i))], m)

\* C10: description is None before the first result set; once execute() or
\* nextset() has consumed a RowDescription it is the column list of that
\* RowDescription, and every row fetchone() returns is formatted with the
\* columns of its own result set.
C10Claim ==
  /\ nq = 0 => description.isNone
  /\ (op = "execute" /\ ~Stopped(State) /\ writes # <<>>
        /\ _message.kind = "DataRow")
     => description = Columns(OwnDescription(_message.i))
  /\ (op = "nextset" /\ ret.tag = "True")
     => description = Columns(OwnDescription(_message.i - 1))
  /\ (op = "fetchone" /\ ret.tag = "row")
     => ret.val[1] = OwnRow([kind |-> "DataRow", q |-> _message.q,
                             i |-> _message.i - 1])

\* --------------------------------------------------- resynchronization
\* execute() or copy() wrote its Query
Submitted == op \in {"execute", "copy"} /\ writes # <<>>

\* it read a message after the Query
ReadAfterQuery == Submitted /\ nreads > writes[1].at

\* C11: when execute() or copy() writes a Query the replies to all earlier
\* statements have been read up to their ReadyForQuery, so every message
\* read after the Query is part of the reply to it and the server owes no
\* reply but that one.
C11Claim ==
  /\ Submitted => Len(server.owed) <= 1
  /\ (ReadAfterQuery /\ op = "execute") => _message.q = nq
  /\ Submitted => \A k \in 1..Len(processed) : processed[k].q = nq
  /\ (Submitted /\ ret.tag = "QueryError") => ret.val[1].msg.q = nq

\* ------------------------------------------------------------- lifecycle
\* C12: leaving a with statement closes the session whether the body ended
\* by itself or by an exception, and a closed session stays closed:
\* closed() is true in every state after close() or __exit__ has run.
C12Step ==
  /\ Called({"close", "__exit__"}) => _closed'
  /\ _closed => _closed'
  /\ _closed' => closed([_closed |-> _closed', conn_closed |-> conn_closed'])

C12Claim == [][C12Step]_vars

C12Witness ==
  /\ op = "__exit__"
  /\ ret = [tag |-> "None", val |-> <<"Exception">>]
  /\ _closed
  /\ _message.kind = "ErrorResponse"

\* ---------------------------------------------------- transaction status
\* the last ReadyForQuery that copy() handed to process_message
LastReady ==
  LET k == CHOOSE j \in 1..Len(processed) :
             /\ processed[j].kind = "ReadyForQuery"
             /\ \A l \in (j + 1)..Len(processed) :
                   processed[l].kind # "ReadyForQuery"
  IN processed[k]

\* C13: after an operation that read a ReadyForQuery (execute(), nextset(),
\* flush_to_query_ready() or copy()), transaction_status is the status that
\* the last ReadyForQuery read carries.
C13Claim ==
  /\ (/\ op \in {"execute", "nextset", "flush_to_query_ready"}
      /\ ~blocked
      /\ nreads > 0
      /\ _message.kind = "ReadyForQuery")
     => transaction_status = _message
  /\ (/\ op = "copy"
      /\ \E j \in 1..Len(processed) : processed[j].kind = "ReadyForQuery")
     => transaction_status = LastReady

\* ----------------------------------------------------------- termination
ReadingCalls ==
  FetchCalls \cup {"nextset", "flush_to_command_complete",
                   "flush_to_query_ready"}

\* C14: with a server that ends every reply with one ReadyForQuery, no call
\* of a fetch method, of nextset() or of a flush reads on after the
\* ReadyForQuery of the batch, so none is left in a read_message that never
\* returns.
C14Claim == op \in ReadingCalls => ~blocked

\* ---------------------------------------------------- unresolved message
\* C15: fetchone() finding in the slot a message that is neither a row nor
\* a terminal marker hands it to process_message once, returns None and has
\* moved past it, so that a retry does not hand it over again and returns
\* the row that follows.
C15Claim ==
  (op = "fetchone" /\ processed # <<>> /\ _message # None)
  => /\ ret.tag = "None"
     /\ Len(processed) = 1
     /\ _message # processed[1]

\* ------------------------------------------------------ reads after close
\* C18: after close() no call of a fetch method or of nextset() reads from
\* the connection.
C18Step ==
  (_closed /\ Called(FetchCalls \cup {"nextset"}))
  => (nreads' = 0 /\ ~blocked')

C18Claim == [][C18Step]_vars

\* ---------------------------------------------------------------- fetchmany
\* the value a formatted row carries
RowValue(row) ==
  IF cursor_type = "dict" THEN row[1].conv.value ELSE row[1].value

\* a step returned the list of the n DataRows that start at the slot, in
\* arrival order, and left in the slot the message that follows the last
TookRows(n) ==
  /\ n = Len(ret'.val)
  /\ nreads' = n
  /\ delivered' = delivered \o ret'.val
  /\ n = 0 => _message' = _message
  /\ n > 0 => /\ _message.kind = "DataRow"
              /\ _message'.q = _message.q
              /\ _message'.i = _message.i + n
              /\ server'.answered = _message.q - 1
  /\ \A j \in 1..n :
        /\ server'.sent[_message.i + j - 1] = "DataRow"
        /\ RowValue(ret'.val[j]) = [q |-> _message.q, i |-> _message.i + j - 1]

\* C16: fetchmany(size), size >= 1, with R rows ahead in the result set
\* returns the next min(size, R) of them in arrival order and consumes none
\* beyond; fetchall() returns all R, so the lists of successive fetchmany
\* calls up to the first empty one make up the list of one fetchall().
C16Step ==
  /\ (Called({"fetchmany"}) /\ asked' >= 1 /\ ret'.tag = "list")
     => /\ Len(ret'.val) <= asked'
        /\ TookRows(Len(ret'.val))
        /\ Len(ret'.val) < asked' => _message'.kind # "DataRow"
  /\ (Called({"fetchall"}) /\ ret'.tag = "list")
     => /\ TookRows(Len(ret'.val))
        /\ _message'.kind # "DataRow"

Executed == op = "execute" /\ writes # <<>> /\ ~Stopped(State)

\* the messages it read after the Query: the n that end with the slot
ReadByExecute == nreads - writes[1].at

FirstRead == _message.i - ReadByExecute + 1

NotDescription(m) == m.kind # "RowDescription"

StopKinds == {"DataRow", "CommandComplete", "ReadyForQuery"}

\* the messages skipped before a DataRow or CommandComplete in the slot
Skipped ==
  [k \in 1..(ReadByExecute - 1) |->
     [kind |-> server.sent[FirstRead + k - 1], q |-> _message.q,
      i |-> FirstRead + k - 1]]

RowOfNextSet(j) ==
  row_formatter([cursor_type |-> cursor_type,
                 description |-> Columns([kind |-> "RowDescription",
                                          q |-> _message.q,
                                          i |-> _message.i - 1])],
                [kind |-> "DataRow", q |-> _message.q,
                 i |-> _message.i + j - 1])

\* C19: nextset() leaves rowcount alone; when it returns True the slot holds
\* the first DataRow of the following result set or its CommandComplete and
\* the fetchall() that follows returns the rows of that set in arrival
\* order; with ReadyForQuery in the slot it returns None and reads nothing.
C19Step ==
  /\ Called({"nextset"}) => rowcount' = rowcount
  /\ (Called({"nextset"}) /\ ret'.tag = "True")
     => _message'.kind \in {"DataRow", "CommandComplete"}
  /\ (op = "nextset" /\ ret.tag = "True" /\ Called({"fetchall"}))
     => /\ ret'.tag = "list"
        /\ _message'.kind = "CommandComplete"
        /\ Len(ret'.val) = _message'.i - _message.i
        /\ \A j \in 1..Len(ret'.val) : ret'.val[j] = RowOfNextSet(j)
  /\ (_message.kind = "ReadyForQuery" /\ Called({"nextset"}))
     => (ret'.tag = "None" /\ nreads' = 0)

C19Claim == [][C19Step]_vars

\* ------------------------------------------------------------------ flushes
\* a step read nothing and left the slot, rowcount and description alone
NoOp ==
  /\ nreads' = 0
  /\ ~blocked'
  /\ UNCHANGED <<_message, rowcount, description, server>>

\* C20: flush_to_query_ready() reads nothing with None or ReadyForQuery in
\* the slot, flush_to_command_complete() nothing with None, ReadyForQuery or
\* CommandComplete, and a second call of a flush directly after one that
\* returned reads nothing and changes neither slot, rowcount nor description.
C20Step ==
  /\ (/\ Called({"flush_to_query_ready"})
      /\ _message.kind \in {"None", "ReadyForQuery"}) => NoOp
  /\ (/\ Called({"flush_to_command_complete"})
      /\ _message.kind \in {"None", "ReadyForQuery", "CommandComplete"})
     => NoOp
  /\ (/\ Called({"flush_to_query_ready"})
      /\ op = "flush_to_query_ready") => NoOp
  /\ (/\ Called({"flush_to_command_complete"})
      /\ op = "flush_to_command_complete") => NoOp

C20Claim == [][C20Step]_vars

\* flush_to_query_ready() has returned without a read: the slot held
\* ReadyForQuery after a result set had been fetched to its end
C20Witness ==
  /\ op = "flush_to_query_ready"
  /\ nreads = 0
  /\ ~blocked
  /\ _message.kind = "ReadyForQuery"
  /\ rowcount > 0
  /\ ~description.isNone
====
